---- MODULE Spec2Model ----
(***************************************************************************)
(* Model of the AIJudge component (src/src/components/AITuringTest.jsx):   *)
(* the seven useState cells, the three event handlers reachable from the   *)
(* rendered buttons and textarea, and the suspended activations of the two *)
(* async handlers (generateQuestion, handleSubmitAnswer), each waiting on  *)
(* one call to model.generateContent.                                      *)
(*                                                                         *)
(* Texts are finite sequences of characters; a prompt is a sequence whose  *)
(* elements are characters or template segments (one element per fixed     *)
(* piece of a template literal).                                           *)
(***************************************************************************)
EXTENDS Integers, Sequences, FiniteSets, TLC

\* ------------------------------------------------------------------ bounds
\* Longest text typed by the user or returned by the text service.
MaxLen == 2
\* Most async handler activations that may be suspended at the same time.
MaxRuns == 2

\* ------------------------------------------------------------------ texts
Whitespace == {" "}
Chars == {" ", "a"}

RECURSIVE SeqsUpTo(_)
SeqsUpTo(n) ==
    IF n = 0 THEN {<<>>}
    ELSE LET shorter == SeqsUpTo(n - 1)
         IN  shorter \cup {Append(s, c) : s \in {t \in shorter : Len(t) = n - 1}, c \in Chars}

Texts == SeqsUpTo(MaxLen)

\* String.prototype.trim: strips leading and trailing whitespace.
RECURSIVE TrimStart(_)
TrimStart(s) ==
    IF s # <<>> /\ Head(s) \in Whitespace THEN TrimStart(Tail(s)) ELSE s

RECURSIVE TrimEnd(_)
TrimEnd(s) ==
    IF s # <<>> /\ s[Len(s)] \in Whitespace THEN TrimEnd(SubSeq(s, 1, Len(s) - 1)) ELSE s

Trim(s) == TrimEnd(TrimStart(s))

\* Mutant of IsBlank: the test without trim, `!text`.
IsBlankNoTrim(s) == s = <<>>

\* !text.trim(): the empty string is the only falsy string.
IsBlank(s) == Trim(s) = <<>>

\* ------------------------------------------------------------------ prompts
QUESTION_PROMPT == <<"QUESTION_PROMPT">>

AI_ANSWER_PROMPT == <<"AI_ANSWER_PROMPT">>

\* The template literal of lines 16-33, one element per paragraph.  It
\* holds no "{question}", "{humanResponse}" or "{aiResponse}" token.
JUDGE_PROMPT ==
    << "You are an AI judge analyzing two responses to the same question.",
       "Your task is to determine which is which",
       "# AI Judge's Analysis",
       "## Response Analysis",
       "### Response 1",
       "*Analysis:*",
       "### Response 2",
       "*Analysis:*",
       "## Verdict" >>

\* String.prototype.replace(pattern, replacement) with a string pattern:
\* the first occurrence of the pattern is replaced, and a string that does
\* not hold the pattern is returned unchanged.
Replace(s, pattern, replacement) ==
    LET hits == {i \in 1..Len(s) : s[i] = pattern}
    IN  IF hits = {} THEN s
        ELSE LET i == CHOOSE k \in hits : \A j \in hits : k <= j
             IN  SubSeq(s, 1, i - 1) \o replacement \o SubSeq(s, i + 1, Len(s))

\* getAIAnswer's argument: `${AI_ANSWER_PROMPT}${question}`.
AIAnswerPrompt(q) == AI_ANSWER_PROMPT \o q

\* getJudgement's prompt, from the question, userAnswer and aiAnswer the
\* closure holds.
JudgePrompt(q, ua, ai) ==
    Replace(Replace(Replace(JUDGE_PROMPT, "{question}", q),
                    "{humanResponse}", ua),
            "{aiResponse}", ai)

\* Mutant of formatOutput: the two responses in the other order.
formatOutputSwapped(q, ua, ai, v) ==
    << "# AI Turing Test Results", "\n\n\n", "## The Question", "\n" >> \o q
    \o << "\n\n\n", "## AI Response", "\n" >> \o ai
    \o << "\n\n\n", "## Human Response", "\n" >> \o ua
    \o << "\n\n\n", "---", "\n" >> \o v

\* formatOutput (lines 35-45): the template literal, one element per fixed
\* piece (a heading line, a run of line breaks, the rule) and the four
\* interpolated texts.
formatOutput(q, ua, ai, v) ==
    << "# AI Turing Test Results", "\n\n\n", "## The Question", "\n" >> \o q
    \o << "\n\n\n", "## Human Response", "\n" >> \o ua
    \o << "\n\n\n", "## AI Response", "\n" >> \o ai
    \o << "\n\n\n", "---", "\n" >> \o v

\* ------------------------------------------------------------------ state
VARIABLES
    currentState,   \* 'initial' | 'answering' | 'complete'
    question,
    userAnswer,
    aiAnswer,
    verdict,
    isProcessing,
    error,
    runs,           \* suspended activations of the async handlers, oldest first
    lastEvent       \* history: the step that produced the current state

vars == <<currentState, question, userAnswer, aiAnswer, verdict, isProcessing,
          error, runs, lastEvent>>

\* The Session of the specification: the seven useState cells.
Session == <<currentState, question, userAnswer, aiAnswer, verdict, isProcessing, error>>

InitialSession == <<"initial", <<>>, <<>>, <<>>, <<>>, FALSE, "">>

ERR_QUESTION == "Failed to generate question. Please try again."
ERR_EMPTY == "Please enter your answer before submitting."
ERR_PROCESS == "An error occurred. Please try again."

Pending == [kind |-> "pending", text |-> <<>>]
ServiceFailure == [kind |-> "error", text |-> <<>>]
Completion(t) == [kind |-> "ok", text |-> t]

\* What a call to model.generateContent / response.text() can produce.
Outcomes == {ServiceFailure} \cup {Completion(t) : t \in Texts}

RemoveAt(s, i) == SubSeq(s, 1, i - 1) \o SubSeq(s, i + 1, Len(s))

Init ==
    /\ currentState = "initial"
    /\ question = <<>>
    /\ userAnswer = <<>>
    /\ aiAnswer = <<>>
    /\ verdict = <<>>
    /\ isProcessing = FALSE
    /\ error = ""
    /\ runs = <<>>
    /\ lastEvent = "mount"

\* -------------------------------------------------- what the render enables
\* Mutant of GenerateButtonEnabled: the button without disabled={isProcessing}.
GenerateButtonNeverDisabled == currentState = "initial"

\* Lines 152-156: the Generate Question button.
GenerateButtonEnabled == currentState = "initial" /\ ~isProcessing

\* Mutant of AnswerInputEnabled: the textarea without disabled={isProcessing}.
AnswerInputNeverDisabled == currentState = "answering"

\* Lines 165-177: the answer textarea.
AnswerInputEnabled == currentState = "answering" /\ ~isProcessing

\* Mutant of SubmitButtonEnabled: the button without disabled={isProcessing}.
SubmitButtonNeverDisabled == currentState = "answering"

\* Lines 165, 178-180: the Submit Answer button.
SubmitButtonEnabled == currentState = "answering" /\ ~isProcessing

\* Mutant of NewTestButtonEnabled: the button rendered outside the
\* currentState === 'complete' block.
NewTestButtonAlwaysRendered == currentState \in {"initial", "answering", "complete"}

\* Lines 188, 231-232: the Start New Test button.
NewTestButtonEnabled == currentState = "complete"

\* Lines 188, 227-229: the document given to ReactMarkdown; nothing is given
\* outside state 'complete'.
RenderedDocument ==
    IF currentState = "complete"
    THEN formatOutput(question, userAnswer, aiAnswer, verdict)
    ELSE <<>>

\* ------------------------------------------------------------------ handlers
\* An activation of an async handler, suspended at an await.  question,
\* userAnswer and aiAnswer are the values its closure captured at the render
\* it was created in; aiResponseText is handleSubmitAnswer's local.
NewRun(fn, pc, prompt) ==
    [ fn |-> fn, pc |-> pc, prompt |-> prompt, response |-> Pending,
      question |-> question, userAnswer |-> userAnswer, aiAnswer |-> aiAnswer,
      aiResponseText |-> <<>> ]

\* Mutant of Succeeded: the `if (!text.trim()) throw` check left out.
SucceededWithoutEmptyCheck(resp) == resp.kind = "ok"

\* A call returns normally when the service answered and the text is not
\* blank; otherwise the awaiting function throws.
Succeeded(resp) == resp.kind = "ok" /\ ~IsBlank(resp.text)

\* Mutant of generateQuestion: setError('') left out.
generateQuestionKeepsError ==
    /\ isProcessing' = TRUE
    /\ runs' = Append(runs, NewRun("generateQuestion", "awaitQuestion", QUESTION_PROMPT))
    /\ lastEvent' = "generateQuestion"
    /\ UNCHANGED <<currentState, question, userAnswer, aiAnswer, verdict, error>>

\* generateQuestion up to its first await (lines 56-60).
generateQuestion ==
    /\ isProcessing' = TRUE
    /\ error' = ""
    /\ runs' = Append(runs, NewRun("generateQuestion", "awaitQuestion", QUESTION_PROMPT))
    /\ lastEvent' = "generateQuestion"
    /\ UNCHANGED <<currentState, question, userAnswer, aiAnswer, verdict>>

\* Mutant of generateQuestionResume: setIsProcessing(false) at the end of the
\* try block instead of in a finally block.
generateQuestionResumeNoFinally(i) ==
    LET run == runs[i] IN
    /\ IF Succeeded(run.response)
       THEN /\ question' = run.response.text
            /\ currentState' = "answering"
            /\ isProcessing' = FALSE
            /\ lastEvent' = "question:ok"
            /\ UNCHANGED error
       ELSE /\ error' = ERR_QUESTION
            /\ lastEvent' = "question:failed"
            /\ UNCHANGED <<question, currentState, isProcessing>>
    /\ runs' = RemoveAt(runs, i)
    /\ UNCHANGED <<userAnswer, aiAnswer, verdict>>

\* generateQuestion from the await to its end (lines 60-73).
generateQuestionResume(i) ==
    LET run == runs[i] IN
    /\ IF Succeeded(run.response)
       THEN /\ question' = run.response.text
            /\ currentState' = "answering"
            /\ lastEvent' = "question:ok"
            /\ UNCHANGED error
       ELSE /\ error' = ERR_QUESTION
            /\ lastEvent' = "question:failed"
            /\ UNCHANGED <<question, currentState>>
    /\ isProcessing' = FALSE
    /\ runs' = RemoveAt(runs, i)
    /\ UNCHANGED <<userAnswer, aiAnswer, verdict>>

\* The textarea's onChange (line 173).
setUserAnswer(t) ==
    /\ userAnswer' = t
    /\ lastEvent' = "setUserAnswer"
    /\ UNCHANGED <<currentState, question, aiAnswer, verdict, isProcessing, error, runs>>

\* Mutant of handleSubmitAnswer: a submission after a failed judge call
\* keeps the aiAnswer it already has and goes to the judge call at once.
handleSubmitAnswerResumesPartial ==
    IF IsBlank(userAnswer)
    THEN /\ error' = ERR_EMPTY
         /\ lastEvent' = "handleSubmitAnswer:rejected"
         /\ UNCHANGED <<currentState, question, userAnswer, aiAnswer, verdict,
                        isProcessing, runs>>
    ELSE /\ isProcessing' = TRUE
         /\ error' = ""
         /\ runs' = Append(runs,
                IF aiAnswer = <<>>
                THEN NewRun("handleSubmitAnswer", "awaitAIAnswer", AIAnswerPrompt(question))
                ELSE [NewRun("handleSubmitAnswer", "awaitJudgement",
                             JudgePrompt(question, userAnswer, aiAnswer))
                        EXCEPT !.aiResponseText = aiAnswer])
         /\ lastEvent' = "handleSubmitAnswer"
         /\ UNCHANGED <<currentState, question, userAnswer, aiAnswer, verdict>>

\* Mutant of handleSubmitAnswer: the empty-answer check left out.
handleSubmitAnswerNoValidation ==
    /\ isProcessing' = TRUE
    /\ error' = ""
    /\ runs' = Append(runs, NewRun("handleSubmitAnswer", "awaitAIAnswer",
                                   AIAnswerPrompt(question)))
    /\ lastEvent' = "handleSubmitAnswer"
    /\ UNCHANGED <<currentState, question, userAnswer, aiAnswer, verdict>>

\* handleSubmitAnswer up to its first await (lines 101-110, 76-77).
handleSubmitAnswer ==
    IF IsBlank(userAnswer)
    THEN /\ error' = ERR_EMPTY
         /\ lastEvent' = "handleSubmitAnswer:rejected"
         /\ UNCHANGED <<currentState, question, userAnswer, aiAnswer, verdict,
                        isProcessing, runs>>
    ELSE /\ isProcessing' = TRUE
         /\ error' = ""
         /\ runs' = Append(runs, NewRun("handleSubmitAnswer", "awaitAIAnswer",
                                        AIAnswerPrompt(question)))
         /\ lastEvent' = "handleSubmitAnswer"
         /\ UNCHANGED <<currentState, question, userAnswer, aiAnswer, verdict>>

\* Mutant of handleSubmitAnswerAfterAIAnswer: getAIAnswer's failure is
\* swallowed and getJudgement is called all the same.
handleSubmitAnswerAfterAIAnswerIgnoresFailure(i) ==
    LET run == runs[i]
        text == IF Succeeded(run.response) THEN run.response.text ELSE <<>>
    IN
    /\ aiAnswer' = text
    /\ runs' = [runs EXCEPT ![i] =
           [run EXCEPT !.pc = "awaitJudgement",
                       !.aiResponseText = text,
                       !.prompt = JudgePrompt(run.question, run.userAnswer, run.aiAnswer),
                       !.response = Pending]]
    /\ lastEvent' = "aiAnswer:ok"
    /\ UNCHANGED <<currentState, question, userAnswer, verdict, isProcessing, error>>

\* handleSubmitAnswer from the return of getAIAnswer to the await inside
\* getJudgement (lines 78-83, 110-113, 86-92), or to its end when
\* getAIAnswer threw (lines 116-121).
handleSubmitAnswerAfterAIAnswer(i) ==
    LET run == runs[i] IN
    IF Succeeded(run.response)
    THEN /\ aiAnswer' = run.response.text
         /\ runs' = [runs EXCEPT ![i] =
                [run EXCEPT !.pc = "awaitJudgement",
                            !.aiResponseText = run.response.text,
                            !.prompt = JudgePrompt(run.question, run.userAnswer, run.aiAnswer),
                            !.response = Pending]]
         /\ lastEvent' = "aiAnswer:ok"
         /\ UNCHANGED <<currentState, question, userAnswer, verdict, isProcessing, error>>
    ELSE /\ error' = ERR_PROCESS
         /\ isProcessing' = FALSE
         /\ runs' = RemoveAt(runs, i)
         /\ lastEvent' = "aiAnswer:failed"
         /\ UNCHANGED <<currentState, question, userAnswer, aiAnswer, verdict>>

\* Mutant of handleSubmitAnswerAfterJudgement: setIsProcessing(false) in the
\* catch block instead of in a finally block.
handleSubmitAnswerAfterJudgementNoFinally(i) ==
    LET run == runs[i] IN
    /\ IF Succeeded(run.response)
       THEN /\ verdict' = run.response.text
            /\ currentState' = "complete"
            /\ lastEvent' = "judgement:ok"
            /\ UNCHANGED <<error, isProcessing>>
       ELSE /\ error' = ERR_PROCESS
            /\ isProcessing' = FALSE
            /\ lastEvent' = "judgement:failed"
            /\ UNCHANGED <<verdict, currentState>>
    /\ runs' = RemoveAt(runs, i)
    /\ UNCHANGED <<question, userAnswer, aiAnswer>>

\* Mutant of handleSubmitAnswerAfterJudgement: the empty check of lines 95-97
\* left out.
handleSubmitAnswerAfterJudgementNoEmptyCheck(i) ==
    LET run == runs[i] IN
    /\ IF run.response.kind = "ok"
       THEN /\ verdict' = run.response.text
            /\ currentState' = "complete"
            /\ lastEvent' = "judgement:ok"
            /\ UNCHANGED error
       ELSE /\ error' = ERR_PROCESS
            /\ lastEvent' = "judgement:failed"
            /\ UNCHANGED <<verdict, currentState>>
    /\ isProcessing' = FALSE
    /\ runs' = RemoveAt(runs, i)
    /\ UNCHANGED <<question, userAnswer, aiAnswer>>

\* handleSubmitAnswer from the return of getJudgement to its end
\* (lines 93-98, 113-121).
handleSubmitAnswerAfterJudgement(i) ==
    LET run == runs[i] IN
    /\ IF Succeeded(run.response)
       THEN /\ verdict' = run.response.text
            /\ currentState' = "complete"
            /\ lastEvent' = "judgement:ok"
            /\ UNCHANGED error
       ELSE /\ error' = ERR_PROCESS
            /\ lastEvent' = "judgement:failed"
            /\ UNCHANGED <<verdict, currentState>>
    /\ isProcessing' = FALSE
    /\ runs' = RemoveAt(runs, i)
    /\ UNCHANGED <<question, userAnswer, aiAnswer>>

\* Mutant of startNewTest: setUserAnswer('') left out.
startNewTestKeepsAnswer ==
    /\ currentState' = "initial"
    /\ question' = <<>>
    /\ aiAnswer' = <<>>
    /\ verdict' = <<>>
    /\ error' = ""
    /\ lastEvent' = "startNewTest"
    /\ UNCHANGED <<userAnswer, isProcessing, runs>>

\* startNewTest (lines 124-131).
startNewTest ==
    /\ currentState' = "initial"
    /\ question' = <<>>
    /\ userAnswer' = <<>>
    /\ aiAnswer' = <<>>
    /\ verdict' = <<>>
    /\ error' = ""
    /\ lastEvent' = "startNewTest"
    /\ UNCHANGED <<isProcessing, runs>>

\* ------------------------------------------------------------------ actions
ClickGenerateQuestion ==
    /\ GenerateButtonEnabled
    /\ Len(runs) < MaxRuns
    /\ generateQuestion

TypeAnswer ==
    /\ AnswerInputEnabled
    /\ \E t \in Texts : t # userAnswer /\ setUserAnswer(t)

ClickSubmitAnswer ==
    /\ SubmitButtonEnabled
    /\ Len(runs) < MaxRuns
    /\ handleSubmitAnswer

ClickStartNewTest ==
    /\ NewTestButtonEnabled
    /\ startNewTest

\* The text service settles the call activation i waits on.
ServiceResponds ==
    \E i \in 1..Len(runs), o \in Outcomes :
        /\ runs[i].response = Pending
        /\ runs' = [runs EXCEPT ![i].response = o]
        /\ lastEvent' = "response"
        /\ UNCHANGED <<currentState, question, userAnswer, aiAnswer, verdict,
                       isProcessing, error>>

\* The awaiting activation continues with the settled call.
QuestionArrives ==
    \E i \in 1..Len(runs) :
        /\ runs[i].pc = "awaitQuestion"
        /\ runs[i].response # Pending
        /\ generateQuestionResume(i)

AIAnswerArrives ==
    \E i \in 1..Len(runs) :
        /\ runs[i].pc = "awaitAIAnswer"
        /\ runs[i].response # Pending
        /\ handleSubmitAnswerAfterAIAnswer(i)

JudgementArrives ==
    \E i \in 1..Len(runs) :
        /\ runs[i].pc = "awaitJudgement"
        /\ runs[i].response # Pending
        /\ handleSubmitAnswerAfterJudgement(i)

Resumes == QuestionArrives \/ AIAnswerArrives \/ JudgementArrives

Next ==
    \/ ClickGenerateQuestion
    \/ TypeAnswer
    \/ ClickSubmitAnswer
    \/ ClickStartNewTest
    \/ ServiceResponds
    \/ QuestionArrives
    \/ AIAnswerArrives
    \/ JudgementArrives

Spec == Init /\ [][Next]_vars

\* The text service settles every call and every settled await continues.
FairSpec == Spec /\ WF_vars(ServiceResponds) /\ WF_vars(Resumes)

\* ------------------------------------------------------------------ claims
\* Whitespace-only (or empty), stated on the characters themselves.
WhitespaceOnly(s) == \A k \in 1..Len(s) : s[k] = " "

\* A settled call that failed: a service error or a blank completion.
CallFailed(resp) == resp.kind = "error" \/ (resp.kind = "ok" /\ WhitespaceOnly(resp.text))

\* A settled call that returned a completion that is not blank.
CallSucceeded(resp) == resp.kind = "ok" /\ ~WhitespaceOnly(resp.text)

\* Activation i ends, or moves on, in this step with its settled call.
Continues(i) ==
    /\ i \in 1..Len(runs)
    /\ runs[i].response # Pending
    /\ \/ Len(runs') < Len(runs)
       \/ /\ Len(runs') = Len(runs)
          /\ runs'[i].pc # runs[i].pc

\* The prompts of the calls issued and not yet consumed, oldest first.
Calls == [i \in 1..Len(runs) |-> runs[i].prompt]

\* t occurs in s at position k.
OccursAt(s, t, k) == k >= 1 /\ k + Len(t) - 1 <= Len(s) /\ SubSeq(s, k, k + Len(t) - 1) = t

Occurs(s, t) == \E k \in 1..(Len(s) + 1) : OccursAt(s, t, k)

\* C1: when the AI-answer call of a submission succeeded and its judge call
\* fails, the step that ends the submission leaves state Answering, an error
\* message, isProcessing false, and an aiAnswer that is not the text the
\* AI-answer call returned.
C1_JudgeFailureDiscardsAIAnswer ==
    [][\A i \in 1..Len(runs) :
          (/\ runs[i].pc = "awaitJudgement"
           /\ CallFailed(runs[i].response)
           /\ Continues(i))
          => /\ currentState' = "answering"
             /\ error' # ""
             /\ isProcessing' = FALSE
             /\ aiAnswer' # runs[i].aiResponseText]_vars

\* C1, the part the code keeps: after a failed judge call the state is
\* Answering, the error is set and isProcessing is false.
C1_JudgeFailureStaysAnswering ==
    [][\A i \in 1..Len(runs) :
          (/\ runs[i].pc = "awaitJudgement"
           /\ CallFailed(runs[i].response)
           /\ Continues(i))
          => /\ currentState' = "answering"
             /\ error' # ""
             /\ isProcessing' = FALSE]_vars

\* C2: while isProcessing is true no step issues a new call, and the Session
\* changes only in a step that continues the in-flight action with its
\* settled call.
C2_NoEffectWhileProcessing ==
    [][isProcessing =>
          /\ Len(runs') <= Len(runs)
          /\ (\A i \in 1..Len(runs) : ~Continues(i))
                => (Session' = Session /\ Calls' = Calls)]_vars

\* C2 witness: a submission is in flight in state Answering, where the
\* textarea and the Submit Answer button are rendered.
C2_Witness ==
    /\ isProcessing
    /\ currentState = "answering"
    /\ Len(runs) = 1
    /\ runs[1].pc = "awaitJudgement"
    /\ runs[1].response = Pending

\* C3: at most one handler activation, hence at most one call, is
\* outstanding in every reachable state.
C3_AtMostOneOutstanding == Len(runs) <= 1

\* C3 witness: the second call of a request chain is in flight.
C3_Witness ==
    /\ Len(runs) = 1
    /\ runs[1].pc = "awaitJudgement"
    /\ runs[1].response = Pending
    /\ lastEvent = "aiAnswer:ok"

\* C4: isProcessing is true exactly while a handler activation is
\* outstanding, and whenever it is true it eventually becomes false, given
\* that the service settles every call.
C4_ProcessingEventuallyCleared ==
    /\ [](isProcessing <=> runs # <<>>)
    /\ (isProcessing ~> ~isProcessing)

\* C4 witness: isProcessing was cleared by a chain that ended in failure.
C4_Witness ==
    /\ ~isProcessing
    /\ lastEvent \in {"question:failed", "aiAnswer:failed", "judgement:failed"}

\* C5: a step that leaves state Complete yields the initial Session.
C5_NewTestResetsSession ==
    [][(currentState = "complete" /\ currentState' # "complete")
          => Session' = InitialSession]_vars

\* C5 witness: a new test was started.
C5_Witness == lastEvent = "startNewTest" /\ currentState = "initial"

\* C6: a step enters Complete only as the continuation of a judge call that
\* succeeded in a submission whose AI-answer call succeeded, and in state
\* Complete none of question, humanAnswer, aiAnswer, verdict is blank.
C6_CompleteOnlyAfterBothCalls ==
    /\ [](currentState = "complete" =>
            /\ ~WhitespaceOnly(question)
            /\ ~WhitespaceOnly(userAnswer)
            /\ ~WhitespaceOnly(aiAnswer)
            /\ ~WhitespaceOnly(verdict))
    /\ [][(currentState # "complete" /\ currentState' = "complete") =>
            \E i \in 1..Len(runs) :
                /\ runs[i].pc = "awaitJudgement"
                /\ CallSucceeded(runs[i].response)
                /\ ~WhitespaceOnly(runs[i].aiResponseText)
                /\ aiAnswer' = runs[i].aiResponseText
                /\ verdict' = runs[i].response.text]_vars

\* C6 witness: Complete was just reached.
C6_Witness == currentState = "complete" /\ lastEvent = "judgement:ok"

\* C7: a submission of a blank humanAnswer issues no call, sets the error
\* and leaves state, isProcessing, question, aiAnswer and verdict as they
\* were.
C7_EmptyAnswerRejected ==
    [][(/\ WhitespaceOnly(userAnswer)
        /\ lastEvent' \in {"handleSubmitAnswer", "handleSubmitAnswer:rejected"})
          => /\ runs' = runs
             /\ error' # ""
             /\ currentState = "answering"
             /\ UNCHANGED <<currentState, isProcessing, question, aiAnswer, verdict>>]_vars

\* C7 witness: a whitespace-only answer was rejected.
C7_Witness ==
    /\ lastEvent = "handleSubmitAnswer:rejected"
    /\ userAnswer = <<" ">>
    /\ error = ERR_EMPTY

\* C8: when the question call fails, the continuation leaves state Initial,
\* an empty question, an error message and isProcessing false.
C8_QuestionFailureStaysInitial ==
    [][\A i \in 1..Len(runs) :
          (/\ runs[i].pc = "awaitQuestion"
           /\ CallFailed(runs[i].response)
           /\ Continues(i))
          => /\ currentState' = "initial"
             /\ question' = <<>>
             /\ error' # ""
             /\ isProcessing' = FALSE]_vars

\* C8 witness: a question request failed.
C8_Witness ==
    /\ lastEvent = "question:failed"
    /\ currentState = "initial"
    /\ error = ERR_QUESTION

\* C9: a later Session field is non-empty only if every earlier one is.
C9_FieldsPopulatedInOrder ==
    /\ verdict # <<>> => aiAnswer # <<>>
    /\ aiAnswer # <<>> => userAnswer # <<>>
    /\ userAnswer # <<>> => question # <<>>

\* C10: the prompt of a judge call in flight holds the question, the
\* submitted humanAnswer and the aiAnswer the AI-answer call returned, the
\* human response before the AI response.
C10_JudgePromptCarriesResponses ==
    \A i \in 1..Len(runs) :
        runs[i].pc = "awaitJudgement" =>
            /\ Occurs(runs[i].prompt, question)
            /\ \E h, a \in 1..Len(runs[i].prompt) :
                  /\ OccursAt(runs[i].prompt, userAnswer, h)
                  /\ OccursAt(runs[i].prompt, runs[i].aiResponseText, a)
                  /\ h + Len(userAnswer) <= a


\* A settled call that returned a blank completion.
BlankCompletion(resp) == resp.kind = "ok" /\ WhitespaceOnly(resp.text)

\* C11: none of question, aiAnswer, verdict ever holds a whitespace-only
\* text that is not empty, and the continuation of a call that returned a
\* blank completion ends the request chain with an error, leaving the state
\* and the three fields as they were.
C11_BlankCompletionNeverAccepted ==
    /\ [](/\ question # <<>> => ~WhitespaceOnly(question)
          /\ aiAnswer # <<>> => ~WhitespaceOnly(aiAnswer)
          /\ verdict # <<>> => ~WhitespaceOnly(verdict))
    /\ [][\A i \in 1..Len(runs) :
            (BlankCompletion(runs[i].response) /\ Continues(i))
            => /\ currentState' = currentState
               /\ Len(runs') < Len(runs)
               /\ error' # ""
               /\ UNCHANGED <<question, aiAnswer, verdict>>]_vars

\* C11 witness: a whitespace-only completion of the judge call has arrived
\* and the continuation of handleSubmitAnswer is the only step left.
C11_Witness ==
    /\ Len(runs) = 1
    /\ runs[1].pc = "awaitJudgement"
    /\ runs[1].response = Completion(<<" ">>)
    /\ aiAnswer # <<>>
    /\ verdict = <<>>


\* The first position of element e in document d, 0 when d does not hold it.
IndexOf(d, e) ==
    LET hits == {k \in 1..Len(d) : d[k] = e}
    IN  IF hits = {} THEN 0 ELSE CHOOSE k \in hits : \A j \in hits : k <= j

\* A markdown heading line.
IsHeading(e) == e \in {"# AI Turing Test Results", "## The Question",
                       "## Human Response", "## AI Response"}

\* In document d the line at position k is the heading h, and text t is the
\* next line.
Under(d, h, t, k) ==
    /\ k >= 1
    /\ k + 1 <= Len(d)
    /\ d[k] = h
    /\ d[k + 1] = "\n"
    /\ OccursAt(d, t, k + 2)

\* The layout of the document of state Complete up to the verdict: the
\* title, then the question, the human response and the AI response, each
\* under its heading, then the rule, in this order.
DocumentLayout(d) ==
    LET q == IndexOf(d, "## The Question")
        h == IndexOf(d, "## Human Response")
        a == IndexOf(d, "## AI Response")
        r == IndexOf(d, "---")
    IN  /\ d[1] = "# AI Turing Test Results"
        /\ 1 < q
        /\ Under(d, "## The Question", question, q)
        /\ q + 2 + Len(question) <= h
        /\ Under(d, "## Human Response", userAnswer, h)
        /\ h + 2 + Len(userAnswer) <= a
        /\ Under(d, "## AI Response", aiAnswer, a)
        /\ a + 2 + Len(aiAnswer) <= r

\* C12 as stated: in state Complete the document holds the title, the
\* question, the human response, the AI response, a separator and the
\* verdict in this order, and the verdict too stands under a heading of its
\* own.
C12_EverySectionUnderHeading ==
    currentState = "complete" =>
        LET d == RenderedDocument
            r == IndexOf(d, "---")
        IN  /\ DocumentLayout(d)
            /\ \E k \in (r + 1)..Len(d) :
                  /\ IsHeading(d[k])
                  /\ d[k + 1] = "\n"
                  /\ OccursAt(d, verdict, k + 2)
                  /\ k + 1 + Len(verdict) = Len(d)

\* C12 amended: in state Complete the document holds the title, the
\* question, the human response and the AI response, each under its
\* heading, then the separator, and the verdict is the line right after the
\* separator and ends the document, with no heading between them.
C12_DocumentLayout ==
    currentState = "complete" =>
        LET d == RenderedDocument
            r == IndexOf(d, "---")
        IN  /\ DocumentLayout(d)
            /\ r >= 1
            /\ d[r + 1] = "\n"
            /\ OccursAt(d, verdict, r + 2)
            /\ r + 1 + Len(verdict) = Len(d)
            /\ \A k \in r..Len(d) : ~IsHeading(d[k])

\* C12 witness: Complete with a human response that differs from the AI
\* response.
C12_Witness ==
    /\ currentState = "complete"
    /\ userAnswer # aiAnswer
    /\ RenderedDocument # <<>>


\* C13: a judge call is issued only by the continuation of an AI-answer
\* call of the same submission that returned a completion that is not blank,
\* and the continuation of an AI-answer call that failed ends the submission
\* without a judge call.
C13_JudgeOnlyAfterAIAnswer ==
    /\ [](\A i \in 1..Len(runs) :
            runs[i].pc = "awaitJudgement" =>
                ~WhitespaceOnly(runs[i].aiResponseText))
    /\ [][/\ \A i \in 1..Len(runs') :
               (/\ runs'[i].pc = "awaitJudgement"
                /\ runs'[i].response = Pending
                /\ runs'[i] \notin {runs[j] : j \in 1..Len(runs)})
               => /\ i <= Len(runs)
                  /\ runs[i].pc = "awaitAIAnswer"
                  /\ CallSucceeded(runs[i].response)
                  /\ runs'[i].aiResponseText = runs[i].response.text
          /\ \A i \in 1..Len(runs) :
               (/\ runs[i].pc = "awaitAIAnswer"
                /\ CallFailed(runs[i].response)
                /\ Continues(i))
               => /\ Len(runs') < Len(runs)
                  /\ \A j \in 1..Len(runs') : runs'[j].pc # "awaitJudgement"]_vars

\* C13 witness: the AI-answer call of a submission failed and the
\* submission ended without a judge call.
C13_Witness ==
    /\ lastEvent = "aiAnswer:failed"
    /\ runs = <<>>
    /\ error = ERR_PROCESS


\* C14: the state changes only from Initial to Answering by the continuation
\* of a question call that succeeded, from Answering to Complete by the
\* continuation of a judge call that succeeded, and from Complete to Initial
\* by startNewTest; and generateQuestion runs only in Initial,
\* handleSubmitAnswer only in Answering, startNewTest only in Complete.
C14_StateEdges ==
    [][/\ currentState' # currentState =>
            \/ /\ currentState = "initial"
               /\ currentState' = "answering"
               /\ \E i \in 1..Len(runs) :
                     /\ runs[i].pc = "awaitQuestion"
                     /\ CallSucceeded(runs[i].response)
                     /\ Continues(i)
            \/ /\ currentState = "answering"
               /\ currentState' = "complete"
               /\ \E i \in 1..Len(runs) :
                     /\ runs[i].pc = "awaitJudgement"
                     /\ CallSucceeded(runs[i].response)
                     /\ Continues(i)
            \/ /\ currentState = "complete"
               /\ currentState' = "initial"
               /\ lastEvent' = "startNewTest"
       /\ lastEvent' = "generateQuestion" => currentState = "initial"
       /\ lastEvent' \in {"handleSubmitAnswer", "handleSubmitAnswer:rejected"}
            => currentState = "answering"
       /\ lastEvent' = "startNewTest" => currentState = "complete"]_vars

\* C14 witness: the edge from Initial to Answering was just taken.
C14_Witness ==
    /\ currentState = "answering"
    /\ lastEvent = "question:ok"
    /\ ~WhitespaceOnly(question)


\* C15: in state Complete isProcessing is false and the error is empty.
C15_CompleteIsQuiet ==
    currentState = "complete" => (isProcessing = FALSE /\ error = "")

\* C15 witness: Complete was reached and no activation is left.
C15_Witness ==
    /\ currentState = "complete"
    /\ runs = <<>>
    /\ verdict # <<>>

\* C16: after a failed question request the Generate Question trigger is
\* enabled in Initial; after a failed submission the Submit Answer trigger
\* is enabled in Answering, with the question and a humanAnswer that passes
\* validation; a failing continuation leaves question and humanAnswer as
\* they were; every accepted submission issues the AI-answer call anew; and
\* a submission whose two calls succeed goes on to the judge call and then
\* to Complete.
C16_FailuresAreRetryable ==
    /\ [](lastEvent = "question:failed" =>
            (currentState = "initial" /\ ENABLED ClickGenerateQuestion))
    /\ [](lastEvent \in {"aiAnswer:failed", "judgement:failed"} =>
            /\ currentState = "answering"
            /\ ENABLED ClickSubmitAnswer
            /\ ~WhitespaceOnly(question)
            /\ ~WhitespaceOnly(userAnswer))
    /\ [][/\ \A i \in 1..Len(runs) :
               (CallFailed(runs[i].response) /\ Continues(i))
               => UNCHANGED <<question, userAnswer, currentState>>
          /\ lastEvent' = "handleSubmitAnswer" =>
               /\ Len(runs') = Len(runs) + 1
               /\ runs'[Len(runs')].pc = "awaitAIAnswer"
               /\ runs'[Len(runs')].response = Pending
               /\ runs'[Len(runs')].prompt = <<"AI_ANSWER_PROMPT">> \o question
          /\ \A i \in 1..Len(runs) :
               (/\ runs[i].pc = "awaitAIAnswer"
                /\ CallSucceeded(runs[i].response)
                /\ Continues(i))
               => /\ Len(runs') = Len(runs)
                  /\ runs'[i].pc = "awaitJudgement"
                  /\ runs'[i].response = Pending
          /\ \A i \in 1..Len(runs) :
               (/\ runs[i].pc = "awaitJudgement"
                /\ CallSucceeded(runs[i].response)
                /\ Continues(i))
               => currentState' = "complete"]_vars

\* C16 witness: a resubmission after a submission whose judge call failed
\* (its closure holds the aiAnswer that submission left) waits on a new
\* AI-answer call.
C16_Witness ==
    /\ Len(runs) = 1
    /\ runs[1].pc = "awaitAIAnswer"
    /\ runs[1].aiAnswer # <<>>
    /\ lastEvent = "handleSubmitAnswer"

\* C17 as stated: no step taken while isProcessing is true or while the
\* state is not Answering changes humanAnswer.
C17_AnswerFrozenOutsideAnswering ==
    [][(isProcessing \/ currentState # "answering") => userAnswer' = userAnswer]_vars

\* C17 amended: while isProcessing is true or the state is not Answering,
\* humanAnswer changes only when startNewTest empties it in Complete; a
\* submission in flight holds the humanAnswer it was made with, which is not
\* blank, and that text is the humanAnswer of the Complete state it reaches.
C17_AnswerFrozenUntilNewTest ==
    /\ [][(isProcessing \/ currentState # "answering") =>
            \/ userAnswer' = userAnswer
            \/ /\ currentState = "complete"
               /\ currentState' = "initial"
               /\ userAnswer' = <<>>]_vars
    /\ [](\A i \in 1..Len(runs) :
            runs[i].fn = "handleSubmitAnswer" =>
                (runs[i].userAnswer = userAnswer /\ ~WhitespaceOnly(userAnswer)))
    /\ [][(currentState # "complete" /\ currentState' = "complete") =>
            \E i \in 1..Len(runs) :
                /\ runs[i].fn = "handleSubmitAnswer"
                /\ userAnswer' = runs[i].userAnswer]_vars
    /\ [](currentState = "complete" => ~WhitespaceOnly(userAnswer))

\* C17 witness: Complete holds the submitted text as typed, trailing
\* whitespace included.
C17_Witness ==
    /\ currentState = "complete"
    /\ userAnswer = <<"a", " ">>

\* C18: the error is empty whenever isProcessing is true, and a step sets an
\* error only as the continuation that ends a request chain on a failed
\* call, or as the rejection of a blank answer.
C18_NoErrorWhileProcessing ==
    /\ [](isProcessing => error = "")
    /\ [][(error' # error /\ error' # "") =>
            \/ \E i \in 1..Len(runs) :
                  /\ CallFailed(runs[i].response)
                  /\ Continues(i)
                  /\ Len(runs') < Len(runs)
            \/ /\ WhitespaceOnly(userAnswer)
               /\ lastEvent' = "handleSubmitAnswer:rejected"
               /\ error' = ERR_EMPTY]_vars

\* C18 witness: a resubmission after a failed submission, whose error was
\* shown, is in flight with the error cleared.
C18_Witness ==
    /\ isProcessing
    /\ error = ""
    /\ Len(runs) = 1
    /\ runs[1].pc = "awaitJudgement"
    /\ runs[1].aiAnswer # <<>>

====
